---------------------------- MODULE Spec2Model ----------------------------
(***************************************************************************)
(* Model of src/wxtest.py: the CarbonEstimator class (scope-1, scope-2 and *)
(* total emissions) and the Flask handlers built over one module-level     *)
(* estimator instance.                                                     *)
(*                                                                         *)
(* Numbers.  Python floats are modelled as exact decimal fixed point:      *)
(*   - a JSON number / the value of float(x): an integer count of 1e-4     *)
(*     ("ten-thousandths"), so 2.5 is 25000 and 1 is 10000;                *)
(*   - EF_SCOPE1 factors: integer counts of 1e-3 (21.62 is 21620);         *)
(*   - EF_GRID factors: integer counts of 1e-4 (0.5703 is 5703);           *)
(*   - every emission amount (e_scope1, e_scope2, e_total and the three    *)
(*     rounded fields): an integer count of 1e-7 tCO2.                     *)
(* Binary floating-point error (about 1e-16 relative) is abstracted away;  *)
(* NaN and the infinities are outside the model.                           *)
(*                                                                         *)
(* Strings.  The two Chinese messages of the handler are written in ASCII: *)
(*   MSG_EMPTY_BODY  for  "请求体不能为空"                                 *)
(*   MSG_INTERNAL    for  "服务器内部错误: "                               *)
(***************************************************************************)
EXTENDS Integers, Sequences, FiniteSets, TLC

VARIABLES
    estimator,   \* the module-level CarbonEstimator instance (its two tables)
    flask,       \* the installed Flask's get_json behaviour on a non-JSON mimetype
    workers,     \* the request being served by each worker thread
    call         \* a direct call of one estimator method (arguments, outcome)

vars == <<estimator, flask, workers, call>>

----------------------------------------------------------------------------
(* Bounds of the model *)

\* longest fuel_data mapping passed to calculate_scope1_emissions
MaxFuelEntries == 2

\* longest fuel_data mapping passed to estimate_total_emissions
MaxTotalFuel == 1

\* number of worker threads serving requests concurrently
NumWorkers == 2

----------------------------------------------------------------------------
(* JSON values as Python sees them after json.loads.                       *)
(* t: the Python type; n: the number (1e-4 units), the boolean as 0/1 or   *)
(* the length of a list/dict; s: the text of a string.                     *)

JAbsent  == [t |-> "absent", n |-> 0, s |-> ""]
JNull    == [t |-> "NoneType", n |-> 0, s |-> ""]
JNum(x)  == [t |-> "num", n |-> x, s |-> ""]
JBig     == [t |-> "bigint", n |-> 0, s |-> ""]
JBool(b) == [t |-> "bool", n |-> IF b THEN 1 ELSE 0, s |-> ""]
JStr(x)  == [t |-> "str", n |-> 0, s |-> x]
JList(k) == [t |-> "list", n |-> k, s |-> ""]

\* type(v).__name__, as it appears in Python's error messages
TypeName(v) ==
    CASE v.t = "num" -> IF v.n % 10000 = 0 THEN "int" ELSE "float"
      [] v.t = "bigint" -> "int"
      [] OTHER -> v.t

\* bool(v): Python truthiness, as used by `not x`
Truthy(v) ==
    CASE v.t = "NoneType" -> FALSE
      [] v.t = "num" -> v.n # 0
      [] v.t = "bigint" -> TRUE
      [] v.t = "bool" -> v.n = 1
      [] v.t = "str" -> v.s # ""
      [] OTHER -> v.n > 0

\* The decimal texts float() parses, among the sample strings, and their values.
NumericText == ("2.5" :> 25000) @@ ("1300" :> 13000000) @@ ("0.0001" :> 1)

\* The outcome of a call: exc is "" on a normal return, else the exception's
\* class; msg is str(e); ret is the returned number.
Return(x) == [exc |-> "", msg |-> "", ret |-> x]
Raise(e, m) == [exc |-> e, msg |-> m, ret |-> 0]

\* float(v)
float(v) ==
    CASE v.t = "num" -> Return(v.n)
      [] v.t = "bool" -> Return(v.n * 10000)
      [] v.t = "bigint" -> Raise("OverflowError", "int too large to convert to float")
      [] v.t = "str" ->
            IF v.s \in DOMAIN NumericText
            THEN Return(NumericText[v.s])
            ELSE Raise("ValueError", "could not convert string to float")
      [] OTHER -> Raise("TypeError", "float() argument must be a string or a real number")

\* mapping.get(key): the value, None when the key is absent
dict_get(v) == IF v.t = "absent" THEN JNull ELSE v

----------------------------------------------------------------------------
(* CarbonEstimator *)

\* CarbonEstimator.__init__: the two emission-factor tables
CarbonEstimator_init ==
    [ EF_SCOPE1 |-> ("gas" :> 21620) @@ ("diesel" :> 3096)
                    @@ ("gasoline" :> 2925) @@ ("coal" :> 1900),
      EF_GRID   |-> ("North" :> 5921) @@ ("Northeast" :> 5594) @@ ("East" :> 5703)
                    @@ ("Central" :> 4233) @@ ("Northwest" :> 4908)
                    @@ ("South" :> 3854) @@ ("National_Avg" :> 5386) ]

\* The result of a method call: the instance after the call and the outcome.
Outcome(self, r) == [self |-> self, exc |-> r.exc, msg |-> r.msg, ret |-> r.ret]

\* scope1_loop with `break` in place of `pass`: a failed conversion ends the loop
RECURSIVE scope1_loop_break(_, _, _, _)
scope1_loop_break(self, items, i, acc) ==
    IF i > Len(items) THEN Return(acc)
    ELSE LET fuel_type == items[i].k
             consumption == items[i].v
         IN  IF fuel_type \in DOMAIN self.EF_SCOPE1 /\ consumption.t # "NoneType"
             THEN LET f == float(consumption)
                  IN  IF f.exc = ""
                      THEN scope1_loop_break(self, items, i + 1,
                                             acc + f.ret * self.EF_SCOPE1[fuel_type])
                      ELSE IF f.exc \in {"ValueError", "TypeError"}
                      THEN Return(acc)
                      ELSE f
             ELSE scope1_loop_break(self, items, i + 1, acc)

\* the for loop of calculate_scope1_emissions, from item i with running sum acc
RECURSIVE scope1_loop(_, _, _, _)
scope1_loop(self, items, i, acc) ==
    IF i > Len(items) THEN Return(acc)
    ELSE LET fuel_type == items[i].k
             consumption == items[i].v
         IN  IF fuel_type \in DOMAIN self.EF_SCOPE1 /\ consumption.t # "NoneType"
             THEN LET f == float(consumption)
                  IN  IF f.exc = ""
                      THEN scope1_loop(self, items, i + 1,
                                       acc + f.ret * self.EF_SCOPE1[fuel_type])
                      ELSE IF f.exc \in {"ValueError", "TypeError"}
                      THEN scope1_loop(self, items, i + 1, acc)
                      ELSE f
             ELSE scope1_loop(self, items, i + 1, acc)

\* calculate_scope1_emissions keeping each product in the factor table
\* (self.EF_SCOPE1[fuel_type] *= float(consumption)) before adding it
RECURSIVE scope1_loop_storing(_, _, _, _)
scope1_loop_storing(self, items, i, acc) ==
    IF i > Len(items) THEN Outcome(self, Return(acc))
    ELSE LET fuel_type == items[i].k
             consumption == items[i].v
         IN  IF fuel_type \in DOMAIN self.EF_SCOPE1 /\ consumption.t # "NoneType"
             THEN LET f == float(consumption)
                      product == (f.ret * self.EF_SCOPE1[fuel_type]) \div 10000
                  IN  IF f.exc = ""
                      THEN scope1_loop_storing(
                               [self EXCEPT !.EF_SCOPE1[fuel_type] = product],
                               items, i + 1, acc + product * 10000)
                      ELSE IF f.exc \in {"ValueError", "TypeError"}
                      THEN scope1_loop_storing(self, items, i + 1, acc)
                      ELSE Outcome(self, f)
             ELSE scope1_loop_storing(self, items, i + 1, acc)

calculate_scope1_emissions_storing(self, fuel_data) ==
    IF fuel_data.t # "dict"
    THEN Outcome(self, Raise("AttributeError",
             "'" \o TypeName(fuel_data) \o "' object has no attribute 'items'"))
    ELSE scope1_loop_storing(self, fuel_data.items, 1, 0)

\* CarbonEstimator.calculate_scope1_emissions
calculate_scope1_emissions(self, fuel_data) ==
    IF fuel_data.t # "dict"
    THEN Outcome(self, Raise("AttributeError",
             "'" \o TypeName(fuel_data) \o "' object has no attribute 'items'"))
    ELSE Outcome(self, scope1_loop(self, fuel_data.items, 1, 0))

\* CarbonEstimator.calculate_scope2_emissions
calculate_scope2_emissions(self, electricity_data) ==
    IF electricity_data.t # "dict"
    THEN Outcome(self, Raise("AttributeError",
             "'" \o TypeName(electricity_data) \o "' object has no attribute 'get'"))
    ELSE LET consumption_kwh == dict_get(electricity_data.consumption_kwh)
             region == dict_get(electricity_data.region)
         IN  IF ~Truthy(consumption_kwh) \/ ~Truthy(region)
             THEN Outcome(self, Return(0))
             ELSE IF region.t \in {"list", "dict"}
             THEN Outcome(self, Raise("TypeError",
                      "unhashable type: '" \o region.t \o "'"))
             ELSE IF ~(region.t = "str" /\ region.s \in DOMAIN self.EF_GRID)
             THEN Outcome(self, Return(0))
             ELSE LET f == float(consumption_kwh)
                  IN  IF f.exc \in {"ValueError", "TypeError"}
                      THEN Outcome(self, Return(0))
                      ELSE IF f.exc # ""
                      THEN Outcome(self, f)
                      \* f.ret / 1000 is the count of 1e-7 MWh; times the factor
                      \* (1e-4 units) and back to 1e-7 units.  Exact for the whole
                      \* numbers of kWh the inputs hold.
                      ELSE Outcome(self,
                               Return((f.ret \div 10000) * self.EF_GRID[region.s]))

\* round(x, 4) of an amount x >= 0 (1e-7 units): to the nearest multiple of 1e-4.
\* Python rounds a float by its binary value, so an amount written ...5 in the
\* fifth decimal goes up or down with its binary representation; the inputs of
\* the model lead to no such tie (NoRoundingTie), where half-even is written.
round4(x) ==
    LET q == x \div 1000
        r == x % 1000
    IN  IF r > 500 \/ (r = 500 /\ q % 2 = 1) THEN (q + 1) * 1000 ELSE q * 1000

\* build_result with the total taken from the two rounded fields
build_result_from_rounded(e_scope1, e_scope2) ==
    [ total_emissions  |-> round4(e_scope1) + round4(e_scope2),
      scope1_emissions |-> round4(e_scope1),
      scope2_emissions |-> round4(e_scope2) ]

\* lines 68-73 of estimate_total_emissions: the total and the three rounded fields
build_result(e_scope1, e_scope2) ==
    LET e_total == e_scope1 + e_scope2
    IN  [ total_emissions  |-> round4(e_total),
          scope1_emissions |-> round4(e_scope1),
          scope2_emissions |-> round4(e_scope2) ]

NoResult == [total_emissions |-> 0, scope1_emissions |-> 0, scope2_emissions |-> 0]

\* CarbonEstimator.estimate_total_emissions: result is the returned dict
estimate_total_emissions(self, fuel_data, electricity_data) ==
    LET s1 == calculate_scope1_emissions(self, fuel_data)
    IN  IF s1.exc # ""
        THEN [self |-> s1.self, exc |-> s1.exc, msg |-> s1.msg, result |-> NoResult]
        ELSE LET s2 == calculate_scope2_emissions(s1.self, electricity_data)
             IN  IF s2.exc # ""
                 THEN [self |-> s2.self, exc |-> s2.exc, msg |-> s2.msg,
                       result |-> NoResult]
                 ELSE [self |-> s2.self, exc |-> "", msg |-> "",
                       result |-> build_result(s1.ret, s2.ret)]


----------------------------------------------------------------------------
(* Mappings as Python sees them.  A fuel_data dict keeps its items in      *)
(* insertion order (the order the for loop visits them); keys are unique.  *)

\* A dict carries the fields both calculators read: items (what .items() yields)
\* and the values of the keys consumption_kwh and region (what .get() reads).
FuelDict(items) ==
    [t |-> "dict", n |-> Len(items), s |-> "", items |-> items,
     consumption_kwh |-> JAbsent, region |-> JAbsent]

ElecDict(kwh, region) ==
    [t |-> "dict", s |-> "", items |-> <<>>,
     n |-> (IF kwh.t = "absent" THEN 0 ELSE 1) + (IF region.t = "absent" THEN 0 ELSE 1),
     consumption_kwh |-> kwh, region |-> region]

\* {}
EmptyDict == FuelDict(<<>>)

\* the body of a JSON object: its number of keys and the two keys the handler reads
Body(n, fd, ed) ==
    [t |-> "dict", n |-> n, s |-> "", fuel_data |-> fd, electricity_data |-> ed]

\* a JSON body that is no object
Scalar(v) == [t |-> v.t, n |-> v.n, s |-> v.s, fuel_data |-> JAbsent,
              electricity_data |-> JAbsent]

\* raw: "nojson" (no body, no JSON Content-Type), "empty" (JSON Content-Type, no
\* body), "malformed" (JSON Content-Type, text that is no JSON), "json"
Post(raw, json) == [route |-> "estimate", raw |-> raw, json |-> json]
Get == [route |-> "health", raw |-> "", json |-> Scalar(JNull)]

----------------------------------------------------------------------------
(* Inputs of the direct calls *)

FuelKeys == {"gas", "diesel", "gasoline", "coal", "wood"}

\* 0.0001, 2, true, "2.5", "abc", [x], 10^400 and null
FuelValues ==
    {JNull, JNum(1), JNum(20000), JBool(TRUE), JStr("2.5"), JStr("abc"), JList(1), JBig}

\* item lists hold each key once
DistinctKeys(items) ==
    \A i, j \in 1..Len(items) : items[i].k = items[j].k => i = j

FuelEntries == [k : FuelKeys, v : FuelValues]

\* every item list of at most n entries with distinct keys
ItemLists(n) ==
    UNION { {items \in [1..m -> FuelEntries] : DistinctKeys(items)} : m \in 0..n }

\* absent, null, 0, 1 kWh, 2000 kWh, true, "1300", "abc", [], [x], 10^400
KwhValues ==
    {JAbsent, JNull, JNum(0), JNum(10000), JNum(20000000), JBool(TRUE),
     JStr("1300"), JStr("abc"), JList(0), JList(1), JBig}

RegionValues ==
    {JAbsent, JNull, JStr(""), JStr("Mars"), JList(1), JNum(10000)}
    \cup {JStr(r) : r \in DOMAIN CarbonEstimator_init.EF_GRID}

ElecInputs == {ElecDict(k, r) : k \in KwhValues, r \in RegionValues}

NoCall ==
    [fn |-> "none", pc |-> "returned", fuel_data |-> EmptyDict,
     electricity_data |-> EmptyDict,
     exc |-> "", msg |-> "", ret |-> 0, result |-> NoResult]

PendingCall(fn, fd, ed) ==
    [NoCall EXCEPT !.fn = fn, !.pc = "pending", !.fuel_data = fd,
                   !.electricity_data = ed]

----------------------------------------------------------------------------
(* The estimator called directly: one method call on given arguments *)

Idle ==
    [pc |-> "idle", request |-> [route |-> "none", raw |-> "", json |-> Scalar(JNull)],
     fuel_data |-> JNull, electricity_data |-> JNull, e_scope1 |-> 0,
     responses |-> <<>>]

EstimatorInit ==
    /\ estimator = CarbonEstimator_init
    /\ flask = "returns_none"
    /\ workers = [w \in 1..NumWorkers |-> Idle]
    /\ \/ \E items \in ItemLists(MaxFuelEntries) :
             call = PendingCall("scope1", FuelDict(items), EmptyDict)
       \/ \E ed \in ElecInputs :
             call = PendingCall("scope2", EmptyDict, ed)
       \/ \E items \in ItemLists(MaxTotalFuel), ed \in ElecInputs :
             call = PendingCall("total", FuelDict(items), ed)

CallScope1 ==
    /\ call.pc = "pending" /\ call.fn = "scope1"
    /\ LET o == calculate_scope1_emissions(estimator, call.fuel_data)
       IN  /\ estimator' = o.self
           /\ call' = [call EXCEPT !.pc = "returned", !.exc = o.exc,
                                   !.msg = o.msg, !.ret = o.ret]
    /\ UNCHANGED <<flask, workers>>

CallScope2 ==
    /\ call.pc = "pending" /\ call.fn = "scope2"
    /\ LET o == calculate_scope2_emissions(estimator, call.electricity_data)
       IN  /\ estimator' = o.self
           /\ call' = [call EXCEPT !.pc = "returned", !.exc = o.exc,
                                   !.msg = o.msg, !.ret = o.ret]
    /\ UNCHANGED <<flask, workers>>

CallTotal ==
    /\ call.pc = "pending" /\ call.fn = "total"
    /\ LET o == estimate_total_emissions(estimator, call.fuel_data,
                                         call.electricity_data)
       IN  /\ estimator' = o.self
           /\ call' = [call EXCEPT !.pc = "returned", !.exc = o.exc,
                                   !.msg = o.msg, !.result = o.result]
    /\ UNCHANGED <<flask, workers>>

EstimatorNext == CallScope1 \/ CallScope2 \/ CallTotal

EstimatorSpec == EstimatorInit /\ [][EstimatorNext]_vars


----------------------------------------------------------------------------
(* The Flask application *)

MSG_EMPTY_BODY == "request body must not be empty"
MSG_INTERNAL == "internal server error: "

\* fuel_data of the requests: missing, [x], {"diesel": 2}, {"gas": 10^400}
ReqFuel ==
    {JAbsent, JList(1), FuelDict(<<[k |-> "diesel", v |-> JNum(20000)]>>),
     FuelDict(<<[k |-> "gas", v |-> JBig]>>)}

\* electricity_data of the requests: missing, [x], 1 kWh in East, 1 kWh in [x]
ReqElec ==
    {JAbsent, JList(1), ElecDict(JNum(10000), JStr("East")),
     ElecDict(JNum(10000), JList(1))}

KeyCount(fd, ed) ==
    (IF fd.t = "absent" THEN 0 ELSE 1) + (IF ed.t = "absent" THEN 0 ELSE 1)

Requests ==
    {Get}
    \cup {Post(raw, Scalar(JNull)) : raw \in {"nojson", "empty", "malformed"}}
    \cup {Post("json", Scalar(v)) : v \in {JNull, JList(0), JList(1)}}
    \cup {Post("json", Body(KeyCount(fd, ed), fd, ed)) : fd \in ReqFuel, ed \in ReqElec}
    \cup {Post("json", Body(1, JAbsent, JAbsent))}

\* a response: the status and the JSON payload
Response(status, success, error, message, data) ==
    [status |-> status, success |-> success, error |-> error,
     message |-> message, data |-> data]

\* health_check
health_check ==
    Response(200, TRUE, "", "Carbon emission estimation service is running.",
             NoResult)

\* request.get_json(): the parsed body, None, or an HTTPException
get_json(request, version) ==
    CASE request.raw = "json" -> [exc |-> "", msg |-> "", val |-> request.json]
      [] request.raw = "nojson" ->
            IF version = "raises_415"
            THEN [exc |-> "UnsupportedMediaType",
                  msg |-> "415 Unsupported Media Type: Did not attempt to load JSON data because the request Content-Type was not 'application/json'.",
                  val |-> Scalar(JNull)]
            ELSE [exc |-> "", msg |-> "", val |-> Scalar(JNull)]
      [] OTHER ->
            [exc |-> "BadRequest",
             msg |-> "400 Bad Request: The browser (or proxy) sent a request that this server could not understand.",
             val |-> Scalar(JNull)]

\* data_get without the {} default: data.get(key)
data_get_no_default(data, v) ==
    IF data.t # "dict"
    THEN [exc |-> "AttributeError",
          msg |-> "'" \o TypeName(data) \o "' object has no attribute 'get'",
          val |-> JNull]
    ELSE [exc |-> "", msg |-> "", val |-> dict_get(v)]

\* data.get(key, {}) on the parsed body: v is the key's value, absent when missing
data_get(data, v) ==
    IF data.t # "dict"
    THEN [exc |-> "AttributeError",
          msg |-> "'" \o TypeName(data) \o "' object has no attribute 'get'",
          val |-> JNull]
    ELSE [exc |-> "", msg |-> "",
          val |-> IF v.t = "absent" THEN EmptyDict ELSE v]

\* the except clause narrowed to `except (ValueError, TypeError)`
except_ValueError_TypeError(exc, msg) ==
    [caught |-> exc \in {"ValueError", "TypeError"},
     response |-> Response(500, FALSE, MSG_INTERNAL \o msg, "", NoResult)]

\* the except clause of handle_estimation: which exceptions it catches, and the
\* response it builds
except_Exception(exc, msg) ==
    [caught |-> TRUE, response |-> Response(500, FALSE, MSG_INTERNAL \o msg, "", NoResult)]

\* lines 103-108 of handle_estimation: the body is read and the two parts extracted
parse_request(request, version) ==
    LET data == get_json(request, version)
    IN  IF data.exc # ""
        THEN [exc |-> data.exc, msg |-> data.msg, returned |-> FALSE,
              fuel_data |-> JNull, electricity_data |-> JNull]
        ELSE IF ~Truthy(data.val)
        THEN [exc |-> "", msg |-> "", returned |-> TRUE,
              fuel_data |-> JNull, electricity_data |-> JNull]
        ELSE LET fd == data_get(data.val, data.val.fuel_data)
                 ed == data_get(data.val, data.val.electricity_data)
             IN  IF fd.exc # ""
                 THEN [exc |-> fd.exc, msg |-> fd.msg, returned |-> FALSE,
                       fuel_data |-> JNull, electricity_data |-> JNull]
                 ELSE [exc |-> "", msg |-> "", returned |-> FALSE,
                       fuel_data |-> fd.val, electricity_data |-> ed.val]

\* The worker after an exception left the try block: answered by the except
\* clause, or ended by the raw exception when the clause does not catch it.
Failed(wk, exc, msg) ==
    LET h == except_Exception(exc, msg)
    IN  IF h.caught
        THEN [wk EXCEPT !.pc = "done", !.responses = Append(@, h.response)]
        ELSE [wk EXCEPT !.pc = "raised"]

Init ==
    /\ estimator = CarbonEstimator_init
    /\ flask \in {"returns_none", "raises_415"}
    /\ workers = [w \in 1..NumWorkers |-> Idle]
    /\ call = NoCall

\* a request reaches an idle worker thread
Receive(w, r) ==
    /\ workers[w].pc = "idle"
    /\ workers' = [workers EXCEPT ![w] = [Idle EXCEPT !.pc = "received", !.request = r]]
    /\ UNCHANGED <<estimator, flask, call>>

\* GET /
HealthCheck(w) ==
    /\ workers[w].pc = "received" /\ workers[w].request.route = "health"
    /\ workers' = [workers EXCEPT ![w].pc = "done",
                                  ![w].responses = Append(@, health_check)]
    /\ UNCHANGED <<estimator, flask, call>>

\* POST /api/estimate, lines 103-108
GetJson(w) ==
    /\ workers[w].pc = "received" /\ workers[w].request.route = "estimate"
    /\ LET p == parse_request(workers[w].request, flask)
       IN  workers' = [workers EXCEPT ![w] =
              IF p.exc # "" THEN Failed(@, p.exc, p.msg)
              ELSE IF p.returned
              THEN [@ EXCEPT !.pc = "done",
                             !.responses = Append(@, Response(400, FALSE,
                                               MSG_EMPTY_BODY, "", NoResult))]
              ELSE [@ EXCEPT !.pc = "scope1", !.fuel_data = p.fuel_data,
                             !.electricity_data = p.electricity_data]]
    /\ UNCHANGED <<estimator, flask, call>>

\* POST /api/estimate, line 111 into estimate_total_emissions, line 66
Scope1(w) ==
    /\ workers[w].pc = "scope1"
    /\ LET o == calculate_scope1_emissions(estimator, workers[w].fuel_data)
       IN  /\ estimator' = o.self
           /\ workers' = [workers EXCEPT ![w] =
                 IF o.exc # "" THEN Failed(@, o.exc, o.msg)
                 ELSE [@ EXCEPT !.pc = "scope2", !.e_scope1 = o.ret]]
    /\ UNCHANGED <<flask, call>>

\* POST /api/estimate, lines 67-73 of estimate_total_emissions and line 114
Scope2(w) ==
    /\ workers[w].pc = "scope2"
    /\ LET o == calculate_scope2_emissions(estimator, workers[w].electricity_data)
       IN  /\ estimator' = o.self
           /\ workers' = [workers EXCEPT ![w] =
                 IF o.exc # "" THEN Failed(@, o.exc, o.msg)
                 ELSE [@ EXCEPT !.pc = "done",
                          !.responses = Append(@, Response(200, TRUE, "", "",
                                            build_result(workers[w].e_scope1, o.ret)))]]
    /\ UNCHANGED <<flask, call>>

\* the response is sent and the thread is free for the next request
Finish(w) ==
    /\ workers[w].pc = "done"
    /\ workers' = [workers EXCEPT ![w] = Idle]
    /\ UNCHANGED <<estimator, flask, call>>

Next ==
    \E w \in 1..NumWorkers :
        \/ \E r \in Requests : Receive(w, r)
        \/ HealthCheck(w)
        \/ GetJson(w)
        \/ Scope1(w)
        \/ Scope2(w)
        \/ Finish(w)

Spec == Init /\ [][Next]_vars


----------------------------------------------------------------------------
(* Properties of the direct calls (EstimatorSpec) *)

Recognized == DOMAIN CarbonEstimator_init.EF_SCOPE1

\* a consumption that float() turns into a number
Coercible(v) == float(v).exc = ""

\* an entry that counts: recognized fuel, consumption present and coercible
Qualifies(e) == e.k \in Recognized /\ e.v.t # "NoneType" /\ Coercible(e.v)

\* the sum of consumption * factor over the entries of items at the positions S
RECURSIVE SumOver(_, _)
SumOver(items, S) ==
    IF S = {} THEN 0
    ELSE LET i == CHOOSE j \in S : TRUE
         IN  float(items[i].v).ret * CarbonEstimator_init.EF_SCOPE1[items[i].k]
             + SumOver(items, S \ {i})

QualifiedSum(items) == SumOver(items, {i \in 1..Len(items) : Qualifies(items[i])})

Returned(fn) == call.fn = fn /\ call.pc = "returned"

\* C1: for every fuel_data mapping, calculate_scope1_emissions returns the sum of
\* consumption * EF_SCOPE1 over the entries with a recognized fuel and a present,
\* coercible consumption (0 when no entry qualifies).
C1_Scope1ReturnsQualifiedSum ==
    Returned("scope1") =>
        /\ call.exc = ""
        /\ call.ret = QualifiedSum(call.fuel_data.items)

\* What the code does satisfy: whenever the call returns, it returns that sum; it
\* raises exactly when a recognized fuel carries an integer too large for float().
Scope1SumUnlessOverflow ==
    Returned("scope1") =>
        LET items == call.fuel_data.items
            overflow == \E i \in 1..Len(items) :
                           items[i].k \in Recognized /\ items[i].v.t = "bigint"
        IN  /\ (call.exc = "") = ~overflow
            /\ overflow => call.exc = "OverflowError"
            /\ ~overflow => call.ret = QualifiedSum(items)

\* C2: calculate_scope2_emissions returns (consumption_kwh / 1000) * EF_GRID[region]
\* when the region is recognized and consumption_kwh is present and numeric, and
\* returns 0 in every other case.
C2_Scope2FormulaElseZero ==
    Returned("scope2") =>
        LET kwh == call.electricity_data.consumption_kwh
            region == call.electricity_data.region
            grid == CarbonEstimator_init.EF_GRID
            applies == /\ region.t = "str" /\ region.s \in DOMAIN grid
                       /\ kwh.t \notin {"absent", "NoneType"} /\ Coercible(kwh)
        IN  /\ call.exc = ""
            /\ call.ret = IF applies
                          THEN (float(kwh).ret \div 10000) * grid[region.s]
                          ELSE 0

\* y is x rounded to 4 decimals: a multiple of 1e-4 no further than 0.5e-4 from x
IsRounded4(y, x) == y % 1000 = 0 /\ 2 * y <= 2 * x + 1000 /\ 2 * x <= 2 * y + 1000

\* C3: in the result of estimate_total_emissions each of the three fields is the
\* 4-decimal rounding of its own unrounded value, and total_emissions rounds the
\* unrounded sum scope1 + scope2, not the sum of the two rounded fields.
C3_TotalRoundsUnroundedSum ==
    (Returned("total") /\ call.exc = "") =>
        LET e1 == QualifiedSum(call.fuel_data.items)
            e2 == calculate_scope2_emissions(CarbonEstimator_init,
                                             call.electricity_data).ret
        IN  /\ IsRounded4(call.result.scope1_emissions, e1)
            /\ IsRounded4(call.result.scope2_emissions, e2)
            /\ IsRounded4(call.result.total_emissions, e1 + e2)

\* no amount the model rounds lies exactly halfway between two multiples of 1e-4
NoRoundingTie ==
    (Returned("total") /\ call.exc = "") =>
        LET e1 == QualifiedSum(call.fuel_data.items)
            e2 == calculate_scope2_emissions(CarbonEstimator_init,
                                             call.electricity_data).ret
        IN  e1 % 1000 # 500 /\ e2 % 1000 # 500 /\ (e1 + e2) % 1000 # 500

\* a total that differs from the sum of the two rounded fields
C3_Witness ==
    /\ Returned("total") /\ call.exc = ""
    /\ call.result.total_emissions
         # call.result.scope1_emissions + call.result.scope2_emissions

\* an entry C4 calls bad: unrecognized fuel, or null or non-numeric consumption
BadEntry(e) ==
    \/ e.k \notin Recognized
    \/ e.v.t = "NoneType"
    \/ float(e.v).exc \in {"ValueError", "TypeError"}

\* items without its i-th entry
Without(items, i) == SubSeq(items, 1, i - 1) \o SubSeq(items, i + 1, Len(items))

\* C4: a bad entry contributes 0 and does not abort the calculation, wherever it
\* stands: the call's outcome is the outcome for the same fuel_data without that
\* entry, and no error is raised when every entry is bad or qualifies.
C4_BadEntryIsSkipped ==
    Returned("scope1") =>
        LET items == call.fuel_data.items
        IN  /\ \A i \in 1..Len(items) :
                 BadEntry(items[i]) =>
                    LET o == calculate_scope1_emissions(CarbonEstimator_init,
                                                        FuelDict(Without(items, i)))
                    IN  call.exc = o.exc /\ call.ret = o.ret
            /\ (\A i \in 1..Len(items) : BadEntry(items[i]) \/ Qualifies(items[i]))
                  => call.exc = ""

\* a bad entry stands before an entry that counts, and the sum was returned
C4_Witness ==
    /\ Returned("scope1") /\ call.exc = "" /\ call.ret > 0
    /\ Len(call.fuel_data.items) = 2
    /\ call.fuel_data.items[1].k \in Recognized
    /\ call.fuel_data.items[1].v.t = "str" /\ ~Coercible(call.fuel_data.items[1].v)
    /\ Qualifies(call.fuel_data.items[2])


----------------------------------------------------------------------------
(* Properties of the server (Spec) *)

Workers == 1..NumWorkers

\* worker w holds the response of a POST /api/estimate request
Answered(w) == workers[w].pc = "done" /\ workers[w].request.route = "estimate"

Resp(w) == workers[w].responses[1]

\* the JSON body is absent, empty or unparseable
NoUsableBody(r) ==
    \/ r.raw \in {"nojson", "empty", "malformed"}
    \/ r.raw = "json" /\ r.json.t = "dict" /\ r.json.n = 0

\* C5: a POST /api/estimate request whose JSON body is absent, empty or
\* unparseable is answered with 400 and {success: false, error: <message>}, never
\* with 200 or 500.
C5_NoBodyIs400 ==
    \A w \in Workers :
        (Answered(w) /\ NoUsableBody(workers[w].request)) =>
            /\ Resp(w).status = 400
            /\ Resp(w).success = FALSE
            /\ Resp(w).error # ""

\* What the code does satisfy: the empty object, and a missing body where
\* get_json returns None, are answered with 400; the estimator is never reached.
EmptyObjectIs400 ==
    \A w \in Workers :
        /\ (Answered(w) /\ workers[w].request.raw = "json"
              /\ workers[w].request.json.t = "dict" /\ workers[w].request.json.n = 0)
             => Resp(w).status = 400 /\ Resp(w).success = FALSE
        /\ (Answered(w) /\ workers[w].request.raw = "nojson" /\ flask = "returns_none")
             => Resp(w).status = 400 /\ Resp(w).success = FALSE
        /\ NoUsableBody(workers[w].request) => workers[w].pc \notin {"scope1", "scope2"}

\* the request makes the handler fail: a truthy body that is no object, or an
\* object whose fuel_data or electricity_data is present and no mapping
Faulty(r) ==
    /\ r.raw = "json"
    /\ \/ r.json.t # "dict" /\ Truthy(r.json)
       \/ r.json.t = "dict" /\ r.json.fuel_data.t \notin {"absent", "dict"}
       \/ r.json.t = "dict" /\ r.json.electricity_data.t \notin {"absent", "dict"}

\* C6: every POST /api/estimate request ends with exactly one response, of status
\* 200, 400 or 500; a failure while it is processed is answered with 500 and
\* {success: false, error: <message>} and never leaves the handler as a raw
\* exception.
C6_OneResponseNoRawFault ==
    \A w \in Workers :
        /\ workers[w].pc # "raised"
        /\ workers[w].pc \in {"received", "scope1", "scope2"}
             => workers[w].responses = <<>>
        /\ Answered(w) =>
             /\ Len(workers[w].responses) = 1
             /\ Resp(w).status \in {200, 400, 500}
             /\ Resp(w).status = 200 <=> Resp(w).success
             /\ Resp(w).status # 200 => Resp(w).error # ""
             /\ Faulty(workers[w].request) =>
                   Resp(w).status = 500 /\ Resp(w).success = FALSE

\* a request whose fuel_data is a list was answered with 500
C6_Witness ==
    \E w \in Workers :
        /\ Answered(w) /\ workers[w].request.raw = "json"
        /\ workers[w].request.json.t = "dict"
        /\ workers[w].request.json.fuel_data.t = "list"
        /\ Resp(w).status = 500 /\ Resp(w).success = FALSE

\* the fuel_data is missing, or a mapping calculate_scope1_emissions returns on
HarmlessFuel(part) ==
    \/ part.t = "absent"
    \/ part.t = "dict" /\ calculate_scope1_emissions(CarbonEstimator_init, part).exc = ""

\* the electricity_data is missing, or a mapping calculate_scope2_emissions returns on
HarmlessElec(part) ==
    \/ part.t = "absent"
    \/ part.t = "dict" /\ calculate_scope2_emissions(CarbonEstimator_init, part).exc = ""

\* C7: with a non-empty JSON object body, a missing fuel_data or electricity_data
\* is handled as an empty mapping: the answer is 200 {success: true, data: ...}
\* (the other part being missing too or a mapping its calculator returns on), the
\* scope of the missing part is 0, and all three fields are 0 when both are empty.
C7_MissingPartIsEmptyMapping ==
    \A w \in Workers :
        LET r == workers[w].request
            fd == r.json.fuel_data
            ed == r.json.electricity_data
            d == Resp(w).data
        IN  (Answered(w) /\ r.raw = "json" /\ r.json.t = "dict" /\ r.json.n > 0) =>
              /\ (fd.t = "absent" /\ HarmlessElec(ed)) =>
                    /\ Resp(w).status = 200 /\ Resp(w).success
                    /\ d.scope1_emissions = 0
                    /\ d.total_emissions = d.scope2_emissions
              /\ (ed.t = "absent" /\ HarmlessFuel(fd)) =>
                    /\ Resp(w).status = 200 /\ Resp(w).success
                    /\ d.scope2_emissions = 0
                    /\ d.total_emissions = d.scope1_emissions
              /\ (fd.t = "absent" /\ ed.t = "absent") => d = NoResult

\* a body with electricity_data only was answered 200 with scope 1 at 0
C7_Witness ==
    \E w \in Workers :
        /\ Answered(w) /\ workers[w].request.raw = "json"
        /\ workers[w].request.json.t = "dict"
        /\ workers[w].request.json.fuel_data.t = "absent"
        /\ workers[w].request.json.electricity_data.t = "dict"
        /\ Resp(w).status = 200
        /\ Resp(w).data.scope1_emissions = 0
        /\ Resp(w).data.scope2_emissions > 0

\* C8: in every state reached by health-check and estimate requests, successful
\* or failing, both factor tables have the keys and values they were built with.
C8_TablesNeverChange ==
    /\ estimator = CarbonEstimator_init
    /\ DOMAIN estimator.EF_SCOPE1 = {"gas", "diesel", "gasoline", "coal"}
    /\ Cardinality(DOMAIN estimator.EF_GRID) = 7

\* one request was answered 200 and another 500
C8_Witness ==
    \E v, w \in Workers :
        /\ Answered(v) /\ Resp(v).status = 200 /\ Resp(v).data.scope1_emissions > 0
        /\ Answered(w) /\ Resp(w).status = 500

\* C9: the response to a POST /api/estimate request is a function of its body
\* alone: two requests with the same body get the same response, whatever was
\* processed before either of them or is processed concurrently.
C9_SameBodySameResponse ==
    \A v, w \in Workers :
        (Answered(v) /\ Answered(w) /\ workers[v].request = workers[w].request)
            => workers[v].responses = workers[w].responses

\* two workers answered the same body with scope-1 emissions in it
C9_Witness ==
    \E v, w \in Workers :
        /\ v # w /\ Answered(v) /\ Answered(w)
        /\ workers[v].request = workers[w].request
        /\ Resp(v).status = 200 /\ Resp(v).data.scope1_emissions > 0

\* C10: the error message of a 500 response is the same whatever fault occurred.
C10_GenericErrorMessage ==
    \A v, w \in Workers :
        (Answered(v) /\ Answered(w) /\ Resp(v).status = 500 /\ Resp(w).status = 500)
            => Resp(v).error = Resp(w).error

=============================================================================
